---- MODULE Spec2Model ----
(***************************************************************************)
(* Rank calculator of the leaderboard component                            *)
(* (src/src/components/Leaderboard.tsx, processMonthlyRanks and            *)
(* processYearlyRanks), and the request handlers of the API routes         *)
(* (src/src/pages/api): their process-wide cache, fetchWithRetry, the      *)
(* leaderboard response and the nominations response.                      *)
(*                                                                         *)
(* A LeaderboardEntry is a record.  An optional property that is missing   *)
(* (undefined) is a field that is not in the record's DOMAIN.              *)
(***************************************************************************)
EXTENDS Integers, Sequences, FiniteSets, TLC

VARIABLES entries, monthlyRanked, yearlyRanked, called

\* the API route, the wall clock, the module-level cache of the route, and
\* the requests
VARIABLES route, clock, cachedData, lastUpdateTime, requests

\* fetchWithRetry: its parameter retries, its loop counter i, where it
\* stands, the fetch attempts and waits it has made, and how it ended
VARIABLES retries, iter, fetchPc, events, outcome

\* the response of a leaderboard handler: the users it is computed for, the
\* per-user results, how the request was answered, where the handler stands
VARIABLES users, results, answer, respPc

\* the nominations handler: the nominations of the periods, the requested
\* format, how the request was answered
VARIABLES periods, format, nomAnswer

rankVars == <<entries, monthlyRanked, yearlyRanked, called>>

respVars == <<users, results, answer, respPc>>

nomVars == <<periods, format, nomAnswer>>

fetchVars == <<retries, iter, fetchPc, events, outcome>>

cacheVars == <<route, clock, cachedData, lastUpdateTime, requests>>

vars == <<entries, monthlyRanked, yearlyRanked, called,
          route, clock, cachedData, lastUpdateTime, requests,
          retries, iter, fetchPc, events, outcome,
          users, results, answer, respPc,
          periods, format, nomAnswer>>

(***************************************************************************)
(* Bounds of the model                                                     *)
(***************************************************************************)
MaxLen == 3

\* requests per behaviour, clock ticks per behaviour
MaxRequests == 3
MaxTicks == 2

\* largest value of the parameter retries of fetchWithRetry
MaxRetries == 4

\* users of a leaderboard request
MaxUsers == 12

\* nominations in the nominations document
MaxNominations == 3

PercentageValues == {0, 100}
AchievementValues == {0, 5}
PointsValues == {0, 50}
RankValues == {2}

Usernames == <<"a", "b", "c", "d", "e", "f">>

(***************************************************************************)
(* Records and object spread                                               *)
(***************************************************************************)
Has(e, f) == f \in DOMAIN e

\* { ...f, ...g }
Spread(f, g) ==
  [x \in (DOMAIN f) \cup (DOMAIN g) |-> IF x \in DOMAIN g THEN g[x] ELSE f[x]]

\* the object without property f
Without(e, f) == [x \in (DOMAIN e) \ {f} |-> e[x]]

\* a property that is either missing or holds one of vals
Optional(f, vals) == {<<>>} \cup {[x \in {f} |-> v] : v \in vals}

ProfileUrl(u) == <<"https://retroachievements.org/user/", u>>

BaseEntry(u) == [username |-> u, profileUrl |-> ProfileUrl(u)]

\* the metrics of an entry as the monthly route returns it, each possibly
\* missing
MonthlyShaped ==
  {Spread(p, a) :
     p \in Optional("completionPercentage", PercentageValues),
     a \in Optional("completedAchievements", AchievementValues)}

\* the metrics of an entry as the yearly route returns it, points possibly
\* missing, possibly carrying a rank already
YearlyShaped ==
  {Spread(p, r) :
     p \in Optional("points", PointsValues),
     r \in Optional("rank", RankValues)}

LeaderboardEntry(u) ==
  {Spread(BaseEntry(u), m) : m \in MonthlyShaped \cup YearlyShaped}

\* the list of entries with metrics m[1], m[2], ..., the i-th one named
\* Usernames[i]
EntryList(m) == [i \in 1..Len(m) |-> Spread(BaseEntry(Usernames[i]), m[i])]

(***************************************************************************)
(* Values that are not numbers.  A metric that holds a non-numeric value   *)
(* (the string 'abc', say) is written NonNumeric; no metric of the program *)
(* is negative, so the value is free.  It is truthy, it is strictly equal  *)
(* to itself and to no number, and arithmetic on it gives NaN.  The result *)
(* of a subtraction is <<n>> for the number n and <<>> for NaN.            *)
(***************************************************************************)
NonNumeric == 0 - 1

NaN == <<>>

\* x - y
Minus(x, y) ==
  IF x = NonNumeric \/ y = NonNumeric THEN NaN ELSE <<x - y>>

\* the number the sort reads from what the comparator returned: NaN is
\* read as +0
SortCompare(v) == IF v = NaN THEN 0 ELSE v[1]

\* e.f with a fallback other than 0: a missing metric no longer reads as 0
OrMinusOne(e, f) == IF Has(e, f) THEN e[f] ELSE 0 - 1

(***************************************************************************)
(* e.f || 0                                                                *)
(***************************************************************************)
OrZero(e, f) == IF Has(e, f) /\ e[f] # 0 THEN e[f] ELSE 0

(***************************************************************************)
(* Array.prototype.sort with a comparator: stable, a before b when the     *)
(* comparator returns less than 0 for (a, b), input order kept when it     *)
(* returns 0.  cmp[i][j] is the value the comparator returns for           *)
(* (s[i], s[j]).                                                           *)
(***************************************************************************)
Sort(s, cmp) ==
  LET n == Len(s)
      \* the values the comparator returned, as a table
      c == SubSeq([i \in 1..n |-> SubSeq(cmp[i], 1, n)], 1, n)
      Before(i, j) == \/ c[i][j] < 0
                      \/ c[i][j] = 0 /\ i < j
      \* pos[i] is the place of s[i] in the result
      pos == SubSeq([i \in 1..n |->
                       1 + Cardinality({j \in 1..n : Before(j, i)})], 1, n)
  IN  SubSeq([k \in 1..n |-> s[CHOOSE i \in 1..n : pos[i] = k]], 1, n)

\* entries.sort(cmp): the argument array itself is sorted
SortedInPlace(es, cmp) == Sort(es, cmp)

\* [...entries].sort(cmp) sorts a fresh copy: the argument array keeps its
\* elements and their order
ArgumentAfterSort(es, cmp) == es

(***************************************************************************)
(* processMonthlyRanks                                                     *)
(***************************************************************************)
MonthlyCompare(a, b) ==
  LET percentDiff == Minus(OrZero(b, "completionPercentage"),
                           OrZero(a, "completionPercentage"))
  IN  IF percentDiff # <<0>>
        THEN percentDiff
        ELSE Minus(OrZero(b, "completedAchievements"),
                   OrZero(a, "completedAchievements"))

\* dense ranking: a new key takes the next rank instead of index + 1
RECURSIVE MonthlyStateDense(_, _)
MonthlyStateDense(sortedEntries, i) ==
  IF i = 0
    THEN [currentRank |-> 1]
    ELSE
      LET entry == sortedEntries[i]
          index == i - 1
          st == MonthlyStateDense(sortedEntries, i - 1)
          currentPercentage == OrZero(entry, "completionPercentage")
          currentAchievements == OrZero(entry, "completedAchievements")
      IN  IF index = 0
            THEN [currentRank |-> st.currentRank,
                  previousPercentage |-> currentPercentage,
                  previousAchievements |-> currentAchievements]
            ELSE [currentRank |->
                    IF \/ currentPercentage # st.previousPercentage
                       \/ currentAchievements # st.previousAchievements
                      THEN st.currentRank + 1
                      ELSE st.currentRank,
                  previousPercentage |-> currentPercentage,
                  previousAchievements |-> currentAchievements]

\* the closure state (currentRank, previousPercentage, previousAchievements)
\* after the map callback has run for the first i elements
RECURSIVE MonthlyState(_, _)
MonthlyState(sortedEntries, i) ==
  IF i = 0
    THEN [currentRank |-> 1]
    ELSE
      LET entry == sortedEntries[i]
          index == i - 1
          st == MonthlyState(sortedEntries, i - 1)
          currentPercentage == OrZero(entry, "completionPercentage")
          currentAchievements == OrZero(entry, "completedAchievements")
      IN  IF index = 0
            THEN [currentRank |-> st.currentRank,
                  previousPercentage |-> currentPercentage,
                  previousAchievements |-> currentAchievements]
            ELSE [currentRank |->
                    IF \/ currentPercentage # st.previousPercentage
                       \/ currentAchievements # st.previousAchievements
                      THEN index + 1
                      ELSE st.currentRank,
                  previousPercentage |-> currentPercentage,
                  previousAchievements |-> currentAchievements]

\* the first element gets its zero-based index as rank
MonthlyEntryZeroBased(sortedEntries, i) ==
  IF i - 1 = 0
    THEN Spread(sortedEntries[i], [rank |-> i - 1])
    ELSE Spread(sortedEntries[i],
                [rank |-> MonthlyState(sortedEntries, i).currentRank])

\* the coerced metrics are written back into the returned record
MonthlyEntryCoerced(sortedEntries, i) ==
  LET entry == sortedEntries[i]
      coerced == [completionPercentage |-> OrZero(entry, "completionPercentage"),
                  completedAchievements |-> OrZero(entry, "completedAchievements")]
  IN  IF i - 1 = 0
        THEN Spread(Spread(entry, coerced), [rank |-> 1])
        ELSE Spread(Spread(entry, coerced),
                    [rank |-> MonthlyState(sortedEntries, i).currentRank])

MonthlyEntry(sortedEntries, i) ==
  IF i - 1 = 0
    THEN Spread(sortedEntries[i], [rank |-> 1])
    ELSE Spread(sortedEntries[i],
                [rank |-> MonthlyState(sortedEntries, i).currentRank])

processMonthlyRanks(es) ==
  LET sortedEntries ==
        Sort(es, [i \in 1..Len(es) |->
                    [j \in 1..Len(es) |->
                       SortCompare(MonthlyCompare(es[i], es[j]))]])
  IN  [i \in 1..Len(sortedEntries) |-> MonthlyEntry(sortedEntries, i)]

(***************************************************************************)
(* processYearlyRanks                                                      *)
(***************************************************************************)
\* equal points broken by completed achievements
YearlyCompareAchievements(a, b) ==
  LET pointsDiff == Minus(OrZero(b, "points"), OrZero(a, "points"))
  IN  IF pointsDiff # <<0>>
        THEN pointsDiff
        ELSE Minus(OrZero(b, "completedAchievements"),
                   OrZero(a, "completedAchievements"))

YearlyCompare(a, b) == Minus(OrZero(b, "points"), OrZero(a, "points"))

\* prevEntry is an element of sortedEntries, the unranked copy of the input:
\* prevEntry.rank is whatever rank the input record carried, possibly none
YearlyEntry(sortedEntries, i) ==
  LET entry == sortedEntries[i]
      index == i - 1
  IN  IF index = 0
        THEN Spread(entry, [rank |-> 1])
        ELSE
          LET prevEntry == sortedEntries[i - 1]
              currentPoints == OrZero(entry, "points")
              prevPoints == OrZero(prevEntry, "points")
          IN  IF currentPoints = prevPoints
                THEN IF Has(prevEntry, "rank")
                       THEN Spread(entry, [rank |-> prevEntry.rank])
                       ELSE Without(entry, "rank")
                ELSE Spread(entry, [rank |-> index + 1])

processYearlyRanks(es) ==
  LET sortedEntries ==
        Sort(es, [i \in 1..Len(es) |->
                    [j \in 1..Len(es) |->
                       SortCompare(YearlyCompare(es[i], es[j]))]])
  IN  [i \in 1..Len(sortedEntries) |-> YearlyEntry(sortedEntries, i)]

(***************************************************************************)
(* The state machine: an input list, and one call of each rank function    *)
(***************************************************************************)
\* no request is being answered
NoResponse ==
  /\ users = <<>>
  /\ results = <<>>
  /\ answer = <<>>
  /\ respPc = "none"

\* the nominations handler is not called
NoNominations ==
  /\ periods = <<>>
  /\ format = "none"
  /\ nomAnswer = <<>>

\* fetchWithRetry is not called
NoFetch ==
  /\ retries = 0
  /\ iter = 0
  /\ fetchPc = "none"
  /\ events = <<>>
  /\ outcome = <<>>

\* no request is made while the rank functions are exercised
NoRequests ==
  /\ route = "none"
  /\ clock = 0
  /\ cachedData = <<>>
  /\ lastUpdateTime = <<>>
  /\ requests = <<>>

Init ==
  /\ NoResponse
  /\ NoNominations
  /\ NoRequests
  /\ NoFetch
  /\ \E n \in 0..MaxLen :
       \E m \in [1..n -> MonthlyShaped \cup YearlyShaped] :
         entries = EntryList(m)
  /\ monthlyRanked = <<>>
  /\ yearlyRanked = <<>>
  /\ called = {}

CallMonthly ==
  /\ "monthly" \notin called
  /\ monthlyRanked' = processMonthlyRanks(entries)
  /\ called' = called \cup {"monthly"}
  /\ entries' = ArgumentAfterSort(entries,
                   [i \in 1..Len(entries) |->
                      [j \in 1..Len(entries) |->
                         SortCompare(MonthlyCompare(entries[i], entries[j]))]])
  /\ UNCHANGED yearlyRanked
  /\ UNCHANGED cacheVars
  /\ UNCHANGED fetchVars
  /\ UNCHANGED respVars
  /\ UNCHANGED nomVars

CallYearly ==
  /\ "yearly" \notin called
  /\ yearlyRanked' = processYearlyRanks(entries)
  /\ called' = called \cup {"yearly"}
  /\ entries' = ArgumentAfterSort(entries,
                   [i \in 1..Len(entries) |->
                      [j \in 1..Len(entries) |->
                         SortCompare(YearlyCompare(entries[i], entries[j]))]])
  /\ UNCHANGED monthlyRanked
  /\ UNCHANGED cacheVars
  /\ UNCHANGED fetchVars
  /\ UNCHANGED respVars
  /\ UNCHANGED nomVars

Next == CallMonthly \/ CallYearly

Spec == Init /\ [][Next]_vars

(***************************************************************************)
(* The same calls on input lists in which some metric is not a number.     *)
(* The sort is defined by the language only when the comparator is         *)
(* consistent on the list (otherwise the order is implementation-defined): *)
(* the lists are those with a consistent comparator.                       *)
(***************************************************************************)
MalformedMonthlyShaped ==
  {Spread(p, a) :
     p \in Optional("completionPercentage", PercentageValues \cup {NonNumeric}),
     a \in Optional("completedAchievements", AchievementValues \cup {NonNumeric})}

MalformedYearlyShaped ==
  {Spread(p, r) :
     p \in Optional("points", PointsValues \cup {NonNumeric}),
     r \in Optional("rank", RankValues)}

Malformed(e) ==
  \E f \in {"completionPercentage", "completedAchievements", "points"} :
    Has(e, f) /\ e[f] = NonNumeric

\* a consistent comparator: comparing equal and comparing less are
\* transitive, and a before b exactly when b after a
ConsistentComparator(cmp) ==
  \A i, j, k \in DOMAIN cmp :
    /\ (cmp[i][j] < 0) = (cmp[j][i] > 0)
    /\ (cmp[i][j] = 0 /\ cmp[j][k] = 0) => cmp[i][k] = 0
    /\ (cmp[i][j] < 0 /\ cmp[j][k] < 0) => cmp[i][k] < 0
    /\ (cmp[i][j] < 0 /\ cmp[j][k] = 0) => cmp[i][k] < 0
    /\ (cmp[i][j] = 0 /\ cmp[j][k] < 0) => cmp[i][k] < 0

MalformedInit ==
  /\ NoResponse
  /\ NoNominations
  /\ NoRequests
  /\ NoFetch
  /\ \E n \in 1..MaxLen :
       \E m \in [1..n -> MalformedMonthlyShaped \cup MalformedYearlyShaped] :
         /\ \E i \in 1..n : Malformed(m[i])
         /\ ConsistentComparator(
              [i \in 1..n |-> [j \in 1..n |->
                 SortCompare(MonthlyCompare(m[i], m[j]))]])
         /\ ConsistentComparator(
              [i \in 1..n |-> [j \in 1..n |->
                 SortCompare(YearlyCompare(m[i], m[j]))]])
         /\ entries = EntryList(m)
  /\ monthlyRanked = <<>>
  /\ yearlyRanked = <<>>
  /\ called = {}

MalformedSpec == MalformedInit /\ [][Next]_vars

(***************************************************************************)
(* The request handlers of the API routes.  monthly-leaderboard and        *)
(* yearly-leaderboard keep the module-level variables cachedData and       *)
(* lastUpdateTime; nominations keeps no cache.  A handler runs without     *)
(* interruption up to its first await and again from its last await to     *)
(* its return; other requests, the clock and the data source move during   *)
(* the awaits.                                                             *)
(***************************************************************************)
CACHE_DURATION == 5 * 60 * 1000

\* the clock moves in steps of half a cache window
TickMillis == CACHE_DURATION \div 2

Routes == {"monthly-leaderboard", "yearly-leaderboard", "nominations"}

Methods == {"GET", "POST"}

\* the routes that declare cachedData and lastUpdateTime
HasCache(rt) == rt \in {"monthly-leaderboard", "yearly-leaderboard"}

\* a request: where its handler stands, its locals (now, and the time at
\* which the data source answered its queries), and what it was answered
NewRequest ==
  [phase |-> "idle", method |-> "", now |-> <<>>, readAt |-> <<>>,
   status |-> 0, body |-> <<>>, hit |-> FALSE]

\* the body of the 405 answer
MethodNotAllowed(rt) ==
  IF rt = "nominations"
    THEN [message |-> "Method not allowed"]
    ELSE [error |-> "Method not allowed"]

FailedToFetch == [error |-> "Failed to fetch"]

InternalServerError == [message |-> "Internal server error"]

\* the body of the 500 answer
ErrorBody(rt) ==
  IF rt = "nominations" THEN InternalServerError ELSE FailedToFetch

\* the boundary of the window counts as fresh
CacheFreshInclusive(cd, lut, now) ==
  /\ cd # <<>>
  /\ lut # <<>>
  /\ lut[1] # 0
  /\ now - lut[1] <= CACHE_DURATION

\* cachedData && lastUpdateTime && (now - lastUpdateTime < CACHE_DURATION)
CacheFresh(cd, lut, now) ==
  /\ cd # <<>>
  /\ lut # <<>>
  /\ lut[1] # 0
  /\ now - lut[1] < CACHE_DURATION

\* the response built from what the data source held at time readAt (its
\* content is named by that time); builtBy names the request that built it
Response(r, readAt, time) ==
  [leaderboard |-> readAt, lastUpdated |-> time, builtBy |-> r]

CacheInit ==
  /\ entries = <<>>
  /\ monthlyRanked = <<>>
  /\ yearlyRanked = <<>>
  /\ called = {}
  /\ NoFetch
  /\ NoResponse
  /\ NoNominations
  /\ route \in Routes
  /\ clock = TickMillis
  /\ cachedData = <<>>
  /\ lastUpdateTime = <<>>
  /\ requests = [r \in 1..MaxRequests |-> NewRequest]

\* the cache check placed before the method check
ArriveCacheFirst(r, method) ==
  /\ requests[r].phase = "idle"
  /\ r > 1 => requests[r - 1].phase # "idle"
  /\ LET now == clock
     IN  IF HasCache(route) /\ CacheFresh(cachedData, lastUpdateTime, now)
           THEN requests' = [requests EXCEPT ![r] =
                  [@ EXCEPT !.phase = "done", !.method = method,
                            !.now = <<now>>, !.status = 200,
                            !.body = cachedData, !.hit = TRUE]]
           ELSE IF method # "GET"
             THEN requests' = [requests EXCEPT ![r] =
                    [@ EXCEPT !.phase = "done", !.method = method,
                              !.status = 405, !.body = <<MethodNotAllowed(route)>>]]
             ELSE requests' = [requests EXCEPT ![r] =
                    [@ EXCEPT !.phase = "fetching", !.method = method,
                              !.now = <<now>>]]
  /\ UNCHANGED <<route, clock, cachedData, lastUpdateTime>>
  /\ UNCHANGED rankVars
  /\ UNCHANGED fetchVars
  /\ UNCHANGED respVars
  /\ UNCHANGED nomVars

\* the handler from its entry to its first await or its early return
Arrive(r, method) ==
  /\ requests[r].phase = "idle"
  /\ r > 1 => requests[r - 1].phase # "idle"
  /\ IF method # "GET"
       THEN requests' = [requests EXCEPT ![r] =
              [@ EXCEPT !.phase = "done", !.method = method,
                        !.status = 405, !.body = <<MethodNotAllowed(route)>>]]
       ELSE LET now == clock
            IN  IF HasCache(route) /\ CacheFresh(cachedData, lastUpdateTime, now)
                  THEN requests' = [requests EXCEPT ![r] =
                         [@ EXCEPT !.phase = "done", !.method = method,
                                   !.now = <<now>>, !.status = 200,
                                   !.body = cachedData, !.hit = TRUE]]
                  ELSE requests' = [requests EXCEPT ![r] =
                         [@ EXCEPT !.phase = "fetching", !.method = method,
                                   !.now = <<now>>]]
  /\ UNCHANGED <<route, clock, cachedData, lastUpdateTime>>
  /\ UNCHANGED rankVars
  /\ UNCHANGED fetchVars
  /\ UNCHANGED respVars
  /\ UNCHANGED nomVars

\* a request takes over the data another request in flight has read
ReadCoalesced(r) ==
  /\ requests[r].phase = "fetching"
  /\ LET others == {q \in 1..MaxRequests : requests[q].phase = "fetched"}
     IN  requests' = [requests EXCEPT ![r] =
           [@ EXCEPT !.phase = "fetched",
                     !.readAt = IF others = {}
                                  THEN <<clock>>
                                  ELSE requests[CHOOSE q \in others : TRUE].readAt]]
  /\ UNCHANGED <<route, clock, cachedData, lastUpdateTime>>
  /\ UNCHANGED rankVars
  /\ UNCHANGED fetchVars
  /\ UNCHANGED respVars
  /\ UNCHANGED nomVars

\* the data source answers the queries of the request
Read(r) ==
  /\ requests[r].phase = "fetching"
  /\ requests' = [requests EXCEPT ![r] =
       [@ EXCEPT !.phase = "fetched", !.readAt = <<clock>>]]
  /\ UNCHANGED <<route, clock, cachedData, lastUpdateTime>>
  /\ UNCHANGED rankVars
  /\ UNCHANGED fetchVars
  /\ UNCHANGED respVars
  /\ UNCHANGED nomVars

\* the catch block falls back to the cached value when there is one
ThrowStaleFallback(r) ==
  /\ requests[r].phase \in {"fetching", "fetched"}
  /\ requests' = [requests EXCEPT ![r] =
       IF cachedData # <<>>
         THEN [@ EXCEPT !.phase = "done", !.readAt = <<>>, !.status = 200,
                        !.body = cachedData]
         ELSE [@ EXCEPT !.phase = "done", !.readAt = <<>>, !.status = 500,
                        !.body = <<ErrorBody(route)>>]]
  /\ UNCHANGED <<route, clock, cachedData, lastUpdateTime>>
  /\ UNCHANGED rankVars
  /\ UNCHANGED fetchVars
  /\ UNCHANGED respVars
  /\ UNCHANGED nomVars

\* the database or the upstream fetch throws, or no user stats are found:
\* the catch block answers 500
Throw(r) ==
  /\ requests[r].phase \in {"fetching", "fetched"}
  /\ requests' = [requests EXCEPT ![r] =
       [@ EXCEPT !.phase = "done", !.readAt = <<>>, !.status = 500,
                 !.body = <<ErrorBody(route)>>]]
  /\ UNCHANGED <<route, clock, cachedData, lastUpdateTime>>
  /\ UNCHANGED rankVars
  /\ UNCHANGED fetchVars
  /\ UNCHANGED respVars
  /\ UNCHANGED nomVars

\* lastUpdateTime is stamped with the time of the write
RespondStampedAtWrite(r) ==
  /\ requests[r].phase = "fetched"
  /\ LET response == Response(r, requests[r].readAt[1], clock)
     IN  /\ requests' = [requests EXCEPT ![r] =
              [@ EXCEPT !.phase = "done", !.status = 200, !.body = <<response>>]]
         /\ IF HasCache(route)
              THEN /\ cachedData' = <<response>>
                   /\ lastUpdateTime' = <<clock>>
              ELSE UNCHANGED <<cachedData, lastUpdateTime>>
  /\ UNCHANGED <<route, clock>>
  /\ UNCHANGED rankVars
  /\ UNCHANGED fetchVars
  /\ UNCHANGED respVars
  /\ UNCHANGED nomVars

\* the cache entry of a request that started later is kept
RespondKeepNewer(r) ==
  /\ requests[r].phase = "fetched"
  /\ LET response == Response(r, requests[r].readAt[1], clock)
     IN  /\ requests' = [requests EXCEPT ![r] =
              [@ EXCEPT !.phase = "done", !.status = 200, !.body = <<response>>]]
         /\ IF /\ HasCache(route)
               /\ \/ lastUpdateTime = <<>>
                  \/ lastUpdateTime[1] <= requests[r].now[1]
              THEN /\ cachedData' = <<response>>
                   /\ lastUpdateTime' = requests[r].now
              ELSE UNCHANGED <<cachedData, lastUpdateTime>>
  /\ UNCHANGED <<route, clock>>
  /\ UNCHANGED rankVars
  /\ UNCHANGED fetchVars
  /\ UNCHANGED respVars
  /\ UNCHANGED nomVars

\* the handler from its last await to its return: build the response,
\* update the cache, answer 200
Respond(r) ==
  /\ requests[r].phase = "fetched"
  /\ LET response == Response(r, requests[r].readAt[1], clock)
     IN  /\ requests' = [requests EXCEPT ![r] =
              [@ EXCEPT !.phase = "done", !.status = 200, !.body = <<response>>]]
         /\ IF HasCache(route)
              THEN /\ cachedData' = <<response>>
                   /\ lastUpdateTime' = requests[r].now
              ELSE UNCHANGED <<cachedData, lastUpdateTime>>
  /\ UNCHANGED <<route, clock>>
  /\ UNCHANGED rankVars
  /\ UNCHANGED fetchVars
  /\ UNCHANGED respVars
  /\ UNCHANGED nomVars

\* time passes
Tick ==
  /\ clock < (MaxTicks + 1) * TickMillis
  /\ clock' = clock + TickMillis
  /\ UNCHANGED <<route, cachedData, lastUpdateTime, requests>>
  /\ UNCHANGED rankVars
  /\ UNCHANGED fetchVars
  /\ UNCHANGED respVars
  /\ UNCHANGED nomVars

CacheNext ==
  \/ \E r \in 1..MaxRequests : \E method \in Methods : Arrive(r, method)
  \/ \E r \in 1..MaxRequests : Read(r)
  \/ \E r \in 1..MaxRequests : Throw(r)
  \/ \E r \in 1..MaxRequests : Respond(r)
  \/ Tick

CacheSpec == CacheInit /\ [][CacheNext]_vars

(***************************************************************************)
(* fetchWithRetry(url, options, retries) of the monthly-leaderboard route. *)
(* events records what the call has done: <<"fetch", r>> for a fetch       *)
(* attempt that ended as r ("ok": a response with ok true, "not ok": a     *)
(* response with ok false, "throws": fetch rejected), <<"wait", ms>> for a *)
(* wait of ms milliseconds that has been started.                          *)
(***************************************************************************)
RECURSIVE Pow(_, _)
Pow(b, n) == IF n = 0 THEN 1 ELSE b * Pow(b, n - 1)

FetchResults == {"ok", "not ok", "throws"}

\* new Error(`Failed after ${retries} retries`)
FailedAfter(n) == <<"Failed after", n, "retries">>

\* the error fetch rejected with in the attempt of loop index n
FetchError(n) == <<"error of attempt", n>>

FetchInit ==
  /\ NoResponse
  /\ NoNominations
  /\ entries = <<>>
  /\ monthlyRanked = <<>>
  /\ yearlyRanked = <<>>
  /\ called = {}
  /\ NoRequests
  /\ retries \in 0..MaxRetries
  /\ iter = 0
  /\ fetchPc = "for"
  /\ events = <<>>
  /\ outcome = <<>>

\* one attempt too many
LoopTestInclusive ==
  /\ fetchPc = "for"
  /\ IF iter <= retries
       THEN /\ fetchPc' = "fetch"
            /\ outcome' = outcome
       ELSE /\ fetchPc' = "thrown"
            /\ outcome' = <<FailedAfter(retries)>>
  /\ UNCHANGED <<retries, iter, events>>
  /\ UNCHANGED rankVars
  /\ UNCHANGED cacheVars
  /\ UNCHANGED respVars
  /\ UNCHANGED nomVars

\* for (...; i < retries; ...), and the throw after the loop
LoopTest ==
  /\ fetchPc = "for"
  /\ IF iter < retries
       THEN /\ fetchPc' = "fetch"
            /\ outcome' = outcome
       ELSE /\ fetchPc' = "thrown"
            /\ outcome' = <<FailedAfter(retries)>>
  /\ UNCHANGED <<retries, iter, events>>
  /\ UNCHANGED rankVars
  /\ UNCHANGED cacheVars
  /\ UNCHANGED respVars
  /\ UNCHANGED nomVars

\* await fetch(url, options) settles, up to the return, the throw or the
\* start of the wait
Fetch(r) ==
  /\ fetchPc = "fetch"
  /\ events' = Append(events, <<"fetch", r>>)
  /\ IF r = "ok"
       THEN /\ fetchPc' = "returned"
            /\ outcome' = <<"response", r>>
       ELSE IF r = "throws" /\ iter = retries - 1
         THEN /\ fetchPc' = "thrown"
              /\ outcome' = <<FetchError(iter)>>
         ELSE /\ fetchPc' = "wait"
              /\ outcome' = outcome
  /\ UNCHANGED <<retries, iter>>
  /\ UNCHANGED rankVars
  /\ UNCHANGED cacheVars
  /\ UNCHANGED respVars
  /\ UNCHANGED nomVars

\* setTimeout(resolve, Math.pow(2, i) * 1000) is set
StartWait ==
  /\ fetchPc = "wait"
  /\ events' = Append(events, <<"wait", Pow(2, iter) * 1000>>)
  /\ fetchPc' = "waiting"
  /\ UNCHANGED <<retries, iter, outcome>>
  /\ UNCHANGED rankVars
  /\ UNCHANGED cacheVars
  /\ UNCHANGED respVars
  /\ UNCHANGED nomVars

\* the timer fires; i++
EndWait ==
  /\ fetchPc = "waiting"
  /\ iter' = iter + 1
  /\ fetchPc' = "for"
  /\ UNCHANGED <<retries, events, outcome>>
  /\ UNCHANGED rankVars
  /\ UNCHANGED cacheVars
  /\ UNCHANGED respVars
  /\ UNCHANGED nomVars

FetchNext ==
  \/ LoopTest
  \/ \E r \in FetchResults : Fetch(r)
  \/ StartWait
  \/ EndWait

\* every fetch settles and every timer fires
FetchSpec == FetchInit /\ [][FetchNext]_vars /\ WF_vars(FetchNext)

(***************************************************************************)
(* The response of the leaderboard handlers: the per-user results, the     *)
(* filter, the sort and the split into leaderboard and                     *)
(* additionalParticipants.  monthly-leaderboard asks the RetroAchievements *)
(* API for every user; the callbacks of users.map share no state and       *)
(* Promise.all keeps the order of users, so the results are taken in one   *)
(* step.  yearly-leaderboard reads the stats of the valid users.  A result *)
(* is <<>> for null and <<entry>> for an entry.                            *)
(***************************************************************************)
UserName(n) == <<"user", n>>

ProfileImage(u) == <<"https://retroachievements.org/UserPic/", u, ".png">>

LeaderboardRoutes == {"monthly-leaderboard", "yearly-leaderboard"}

\* what the data sources hold for the n-th user: the achievements of the
\* game (Object.keys(data.Achievements).length), those with a DateEarned,
\* the points of the year
NumAchievementsOf(n) == 4
EarnedOf(n) == (n * 3) % 5
PointsOf(n) == ((n * 3) % 5) * 10

\* the n-th user as the monthly route meets it: processing it goes well or
\* throws (fetchWithRetry or response.json() rejects, data has no
\* properties)
MonthlyUser(n, ok) ==
  [username |-> UserName(n),
   threw |-> ~ok,
   numAchievements |-> NumAchievementsOf(n),
   completed |-> EarnedOf(n)]

\* the n-th user as the yearly route meets it: with or without a bonus
\* point of the current year
YearlyUser(n, bonus) ==
  [username |-> UserName(n),
   points |-> PointsOf(n),
   bonusPoints |-> IF bonus THEN <<[reason |-> "bonus", points |-> 1]>>
                            ELSE <<>>]

\* numAchievements > 0
\*   ? parseFloat(((completed / numAchievements) * 100).toFixed(2)) : 0
\* (the quotients of the model have at most two decimals)
Percentage(completed, numAchievements) ==
  IF numAchievements > 0 THEN (completed * 100) \div numAchievements ELSE 0

\* the callback of users.map in the monthly route, its catch included
MonthlyUserResult(u) ==
  IF u.threw
    THEN <<>>
    ELSE <<[username |-> u.username,
            profileImage |-> ProfileImage(u.username),
            profileUrl |-> ProfileUrl(u.username),
            completedAchievements |-> u.completed,
            totalAchievements |-> u.numAchievements,
            completionPercentage |-> Percentage(u.completed, u.numAchievements)]>>

\* the callback of validUsers.map in the yearly route
YearlyUserResult(u) ==
  <<[username |-> u.username,
     profileImage |-> ProfileImage(u.username),
     profileUrl |-> ProfileUrl(u.username),
     points |-> OrZero(u, "points"),
     bonusPoints |-> u.bonusPoints]>>

\* .filter(Boolean) in the monthly route,
\* .filter(user => user.points > 0 || user.bonusPoints.length > 0) in the
\* yearly route
Kept(rt, result) ==
  IF rt = "monthly-leaderboard"
    THEN result # <<>>
    ELSE result[1].points > 0 \/ Len(result[1].bonusPoints) > 0

RECURSIVE Filter(_, _)
Filter(rt, rs) ==
  IF rs = <<>>
    THEN <<>>
    ELSE IF Kept(rt, Head(rs))
      THEN <<Head(rs)[1]>> \o Filter(rt, Tail(rs))
      ELSE Filter(rt, Tail(rs))

\* the comparators of the two routes
HandlerCompare(rt, a, b) ==
  IF rt = "monthly-leaderboard"
    THEN IF b.completionPercentage # a.completionPercentage
           THEN b.completionPercentage - a.completionPercentage
           ELSE b.completedAchievements - a.completedAchievements
    ELSE b.points - a.points

SortedUsers(rt, rs) ==
  LET kept == Filter(rt, rs)
  IN  Sort(kept, [i \in 1..Len(kept) |->
                    [j \in 1..Len(kept) |-> HandlerCompare(rt, kept[i], kept[j])]])

\* Array.prototype.slice(from, to), zero-based, to exclusive
Slice(s, from, to) ==
  SubSeq(s, from + 1, IF to < Len(s) THEN to ELSE Len(s))

\* sortedUsers.slice(0, 10)
Leaderboard(sorted) == Slice(sorted, 0, 10)

\* the rest is taken from position 11
AdditionalParticipantsSkipOne(sorted) ==
  LET rest == Slice(sorted, 11, Len(sorted))
  IN  [k \in 1..Len(rest) |-> rest[k].username]

\* sortedUsers.slice(10).map(u => u.username)
AdditionalParticipants(sorted) ==
  LET rest == Slice(sorted, 10, Len(sorted))
  IN  [k \in 1..Len(rest) |-> rest[k].username]

ResponseInit ==
  /\ entries = <<>>
  /\ monthlyRanked = <<>>
  /\ yearlyRanked = <<>>
  /\ called = {}
  /\ NoFetch
  /\ NoNominations
  /\ route \in LeaderboardRoutes
  /\ clock = TickMillis
  /\ cachedData = <<>>
  /\ lastUpdateTime = <<>>
  /\ requests = <<>>
  /\ \E n \in 0..MaxUsers :
       \E flag \in [1..n -> BOOLEAN] :
         users = [k \in 1..n |->
                    IF route = "monthly-leaderboard"
                      THEN MonthlyUser(k, flag[k])
                      ELSE YearlyUser(k, flag[k])]
  /\ results = <<>>
  /\ answer = <<>>
  /\ respPc = "start"

\* the per-user try/catch is missing: a rejected callback rejects
\* Promise.all and the handler's catch answers 500
MonthlyRetrieveUncaught ==
  /\ respPc = "start"
  /\ route = "monthly-leaderboard"
  /\ IF \E k \in 1..Len(users) : users[k].threw
       THEN /\ answer' = <<[status |-> 500, body |-> FailedToFetch]>>
            /\ respPc' = "done"
            /\ results' = results
       ELSE /\ results' = [k \in 1..Len(users) |-> MonthlyUserResult(users[k])]
            /\ respPc' = "retrieved"
            /\ answer' = answer
  /\ UNCHANGED users
  /\ UNCHANGED rankVars
  /\ UNCHANGED cacheVars
  /\ UNCHANGED fetchVars
  /\ UNCHANGED nomVars

\* await Promise.all(userPromises)
MonthlyRetrieve ==
  /\ respPc = "start"
  /\ route = "monthly-leaderboard"
  /\ results' = [k \in 1..Len(users) |-> MonthlyUserResult(users[k])]
  /\ respPc' = "retrieved"
  /\ UNCHANGED <<users, answer>>
  /\ UNCHANGED rankVars
  /\ UNCHANGED cacheVars
  /\ UNCHANGED fetchVars
  /\ UNCHANGED nomVars

\* validUsers.map(...)
YearlyRetrieve ==
  /\ respPc = "start"
  /\ route = "yearly-leaderboard"
  /\ results' = [k \in 1..Len(users) |-> YearlyUserResult(users[k])]
  /\ respPc' = "retrieved"
  /\ UNCHANGED <<users, answer>>
  /\ UNCHANGED rankVars
  /\ UNCHANGED cacheVars
  /\ UNCHANGED fetchVars
  /\ UNCHANGED nomVars

\* filter, sort, build the response, update the cache, answer 200
BuildResponse ==
  /\ respPc = "retrieved"
  /\ LET sortedUsers == SortedUsers(route, results)
         response == [leaderboard |-> Leaderboard(sortedUsers),
                      additionalParticipants |-> AdditionalParticipants(sortedUsers),
                      lastUpdated |-> clock]
     IN  /\ cachedData' = <<response>>
         /\ lastUpdateTime' = <<clock>>
         /\ answer' = <<[status |-> 200, body |-> response]>>
  /\ respPc' = "done"
  /\ UNCHANGED <<users, results>>
  /\ UNCHANGED <<route, clock, requests>>
  /\ UNCHANGED rankVars
  /\ UNCHANGED fetchVars
  /\ UNCHANGED nomVars

ResponseNext == MonthlyRetrieve \/ YearlyRetrieve \/ BuildResponse

ResponseSpec == ResponseInit /\ [][ResponseNext]_vars

(***************************************************************************)
(* The nominations handler.  periods holds the values of                   *)
(* nominationsDoc.nominations in the order Object.values gives them.  The  *)
(* accumulator of the carrd format is a plain object keyed by game title:  *)
(* keys are its own properties in order of insertion, a title that names a *)
(* property of Object.prototype reads that inherited property.             *)
(***************************************************************************)
Games == {"Chrono Trigger", "1942", "constructor"}

Nominators == {"x", "y"}

\* the game titles that name a property every object inherits
InheritedProperties == {"constructor"}

\* the game titles that are array indices: Object.values lists those keys
\* first
IsArrayIndex(g) == g = "1942"

Nomination(g, u) ==
  [game |-> g, platform |-> "SNES", discordUsername |-> u,
   discordId |-> <<"id", u>>]

\* Object.values(nominationsDoc.nominations).flat()
RECURSIVE AllNominations(_)
AllNominations(ps) ==
  IF ps = <<>> THEN <<>> ELSE Head(ps) \o AllNominations(Tail(ps))

\* every nomination is counted, also a repeated one of the same user
GroupStepCountAll(acc, nomination) ==
  LET game == nomination.game
  IN  IF acc.threw
        THEN acc
        ELSE IF game \in DOMAIN acc.groups
          THEN IF \E k \in 1..Len(acc.groups[game].nominatedBy) :
                    acc.groups[game].nominatedBy[k] = nomination.discordUsername
                 THEN [acc EXCEPT !.groups[game].count = @ + 1]
                 ELSE [acc EXCEPT
                         !.groups[game].nominatedBy =
                            Append(@, nomination.discordUsername),
                         !.groups[game].count = @ + 1]
          ELSE IF game \in InheritedProperties
            THEN [acc EXCEPT !.threw = TRUE]
            ELSE [acc EXCEPT
                    !.keys = Append(@, game),
                    !.groups = [g \in (DOMAIN acc.groups) \cup {game} |->
                                  IF g = game
                                    THEN [title |-> game,
                                          platform |-> nomination.platform,
                                          nominatedBy |->
                                            <<nomination.discordUsername>>,
                                          count |-> 1]
                                    ELSE acc.groups[g]]]

\* the callback of the reduce of the carrd format; acc.threw when
\* acc[game].nominatedBy.includes was called on undefined
GroupStep(acc, nomination) ==
  LET game == nomination.game
  IN  IF acc.threw
        THEN acc
        ELSE IF game \in DOMAIN acc.groups
          THEN IF \E k \in 1..Len(acc.groups[game].nominatedBy) :
                    acc.groups[game].nominatedBy[k] = nomination.discordUsername
                 THEN acc
                 ELSE [acc EXCEPT
                         !.groups[game].nominatedBy =
                            Append(@, nomination.discordUsername),
                         !.groups[game].count = @ + 1]
          ELSE IF game \in InheritedProperties
            THEN [acc EXCEPT !.threw = TRUE]
            ELSE [acc EXCEPT
                    !.keys = Append(@, game),
                    !.groups = [g \in (DOMAIN acc.groups) \cup {game} |->
                                  IF g = game
                                    THEN [title |-> game,
                                          platform |-> nomination.platform,
                                          nominatedBy |->
                                            <<nomination.discordUsername>>,
                                          count |-> 1]
                                    ELSE acc.groups[g]]]

\* allNominations.reduce(..., {}) of the carrd format
RECURSIVE GameGroups(_, _)
GameGroups(acc, all) ==
  IF all = <<>>
    THEN acc
    ELSE GameGroups(GroupStep(acc, Head(all)), Tail(all))

RECURSIVE KeysWhere(_, _)
KeysWhere(keys, index) ==
  IF keys = <<>>
    THEN <<>>
    ELSE IF IsArrayIndex(Head(keys)) = index
      THEN <<Head(keys)>> \o KeysWhere(Tail(keys), index)
      ELSE KeysWhere(Tail(keys), index)

\* the own keys in the order of Object.values: array indices, then the
\* other keys in order of insertion
OwnKeys(acc) == KeysWhere(acc.keys, TRUE) \o KeysWhere(acc.keys, FALSE)

\* Object.values(gameGroups).map(group => ...)
FormattedNominations(acc) ==
  [k \in 1..Len(OwnKeys(acc)) |->
     LET group == acc.groups[OwnKeys(acc)[k]]
     IN  [title |-> group.title,
          achievementCount |-> 0,
          imageUrl |-> "/api/placeholder/250/140",
          nominationCount |-> group.count,
          nominatedBy |-> group.nominatedBy]]

\* a later nomination of a game replaces the one kept
UniqueStepKeepLast(acc, current) ==
  IF \E k \in 1..Len(acc) : acc[k].game = current.game
    THEN [k \in 1..Len(acc) |->
            IF acc[k].game = current.game THEN current ELSE acc[k]]
    ELSE Append(acc, current)

\* the callback of the reduce of the web app format
UniqueStep(acc, current) ==
  IF \E k \in 1..Len(acc) : acc[k].game = current.game
    THEN acc
    ELSE Append(acc, current)

\* allNominations.reduce(..., []) of the web app format
RECURSIVE UniqueNominations(_, _)
UniqueNominations(acc, all) ==
  IF all = <<>>
    THEN acc
    ELSE UniqueNominations(UniqueStep(acc, Head(all)), Tail(all))

NominationsInit ==
  /\ entries = <<>>
  /\ monthlyRanked = <<>>
  /\ yearlyRanked = <<>>
  /\ called = {}
  /\ NoRequests
  /\ NoFetch
  /\ NoResponse
  /\ \E n \in 0..MaxNominations :
       \E g \in [1..n -> Games] :
         \E u \in [1..n -> Nominators] :
           \E cut \in 0..n :
             LET all == [k \in 1..n |-> Nomination(g[k], u[k])]
             IN  periods = <<SubSeq(all, 1, cut), SubSeq(all, cut + 1, n)>>
  /\ format \in {"carrd", "web"}
  /\ nomAnswer = <<>>

\* req.query.format === 'carrd'
AnswerCarrd ==
  /\ nomAnswer = <<>>
  /\ format = "carrd"
  /\ LET allNominations == AllNominations(periods)
         gameGroups == GameGroups([keys |-> <<>>, groups |-> <<>>,
                                   threw |-> FALSE], allNominations)
         formattedNominations == FormattedNominations(gameGroups)
     IN  IF gameGroups.threw
           THEN nomAnswer' = <<[status |-> 500, body |-> InternalServerError]>>
           ELSE nomAnswer' =
                  <<[status |-> 200,
                     body |-> [totalNominations |-> Len(allNominations),
                               uniqueGames |-> Len(formattedNominations),
                               nominations |-> formattedNominations,
                               isOpen |-> FALSE,
                               lastUpdated |-> clock]]>>
  /\ UNCHANGED <<periods, format>>
  /\ UNCHANGED rankVars
  /\ UNCHANGED cacheVars
  /\ UNCHANGED fetchVars
  /\ UNCHANGED respVars

\* the web app format
AnswerWeb ==
  /\ nomAnswer = <<>>
  /\ format # "carrd"
  /\ LET allNominations == AllNominations(periods)
         uniqueNominations == UniqueNominations(<<>>, allNominations)
     IN  nomAnswer' =
           <<[status |-> 200,
              body |-> [nominations |-> uniqueNominations,
                        isOpen |-> FALSE,
                        lastUpdated |-> clock]]>>
  /\ UNCHANGED <<periods, format>>
  /\ UNCHANGED rankVars
  /\ UNCHANGED cacheVars
  /\ UNCHANGED fetchVars
  /\ UNCHANGED respVars

NominationsNext == AnswerCarrd \/ AnswerWeb

NominationsSpec == NominationsInit /\ [][NominationsNext]_vars

(***************************************************************************)
(* The medal class of a rendered entry                                     *)
(***************************************************************************)
Medal(entry) ==
  IF Has(entry, "rank") /\ entry.rank = 1 THEN "medal-gold"
  ELSE IF Has(entry, "rank") /\ entry.rank = 2 THEN "medal-silver"
  ELSE IF Has(entry, "rank") /\ entry.rank = 3 THEN "medal-bronze"
  ELSE ""

(***************************************************************************)
(* Vocabulary of the properties                                            *)
(***************************************************************************)
MonthlyDone == "monthly" \in called
YearlyDone == "yearly" \in called

MonthlyKey(e) ==
  <<OrZero(e, "completionPercentage"), OrZero(e, "completedAchievements")>>
YearlyKey(e) == <<OrZero(e, "points")>>

\* the rank of an entry as a list: empty when the entry carries no rank
RankOf(e) == IF Has(e, "rank") THEN <<e.rank>> ELSE <<>>
RankSeq(out) == [i \in 1..Len(out) |-> RankOf(out[i])]
NameSeq(out) == [i \in 1..Len(out) |-> out[i].username]

\* position of the record named u in the input list
InputIndex(u) == CHOOSE i \in 1..Len(entries) : entries[i].username = u

\* r1 <= r2 on ranks that may be undefined (a comparison with undefined is
\* false)
RankLeq(e1, e2) == Has(e1, "rank") /\ Has(e2, "rank") /\ e1.rank <= e2.rank

\* C1: processMonthlyRanks assigns competition ranks: an entry whose
\* (percentage, achievements) pair equals the pair of the entry before it has
\* that entry's rank, any other entry at zero-based position i has rank i + 1
C1_MonthlyCompetitionRanks ==
  MonthlyDone =>
    \A i \in 2..Len(monthlyRanked) :
      /\ Has(monthlyRanked[i], "rank")
      /\ Has(monthlyRanked[i - 1], "rank")
      /\ IF MonthlyKey(monthlyRanked[i]) = MonthlyKey(monthlyRanked[i - 1])
           THEN monthlyRanked[i].rank = monthlyRanked[i - 1].rank
           ELSE monthlyRanked[i].rank = (i - 1) + 1

\* percentages [100,100,0], equal achievement counts on the first two:
\* ranks [1,1,3]
C1_Witness ==
  /\ MonthlyDone
  /\ Len(monthlyRanked) = 3
  /\ MonthlyKey(monthlyRanked[1]) = <<100, 5>>
  /\ MonthlyKey(monthlyRanked[2]) = <<100, 5>>
  /\ MonthlyKey(monthlyRanked[3])[1] = 0
  /\ RankSeq(monthlyRanked) = <<<<1>>, <<1>>, <<3>>>>

\* C2: processYearlyRanks makes tied entries share a rank: an output entry
\* whose points equal the points of the entry before it carries the same
\* rank as that preceding output entry; all points equal gives rank 1
\* everywhere
C2_YearlyTiesShareRank ==
  YearlyDone =>
    /\ \A i \in 2..Len(yearlyRanked) :
         YearlyKey(yearlyRanked[i]) = YearlyKey(yearlyRanked[i - 1]) =>
           /\ RankOf(yearlyRanked[i]) # <<>>
           /\ RankOf(yearlyRanked[i]) = RankOf(yearlyRanked[i - 1])
    /\ (\A i, j \in 1..Len(entries) : YearlyKey(entries[i]) = YearlyKey(entries[j]))
         => \A i \in 1..Len(yearlyRanked) : RankOf(yearlyRanked[i]) = <<1>>

NonDecreasing(out) ==
  \A i, j \in 1..Len(out) : i < j => RankLeq(out[i], out[j])

\* C3: in the output of both rank functions the rank is non-decreasing along
\* the sequence
C3_RankNonDecreasing ==
  /\ MonthlyDone => NonDecreasing(monthlyRanked)
  /\ YearlyDone => NonDecreasing(yearlyRanked)

MonthlyBetter(a, b) ==
  \/ OrZero(a, "completionPercentage") > OrZero(b, "completionPercentage")
  \/ /\ OrZero(a, "completionPercentage") = OrZero(b, "completionPercentage")
     /\ OrZero(a, "completedAchievements") > OrZero(b, "completedAchievements")

YearlyBetter(a, b) == OrZero(a, "points") > OrZero(b, "points")

\* reference competition rank: 1 + the number of strictly better entries
MonthlyReferenceRank(e) ==
  1 + Cardinality({k \in 1..Len(entries) : MonthlyBetter(entries[k], e)})

YearlyReferenceRank(e) ==
  1 + Cardinality({k \in 1..Len(entries) : YearlyBetter(entries[k], e)})

\* C4: the rank of each output entry equals the reference competition rank,
\* 1 plus the number of input entries with a strictly better sort key, in
\* both rank functions
C4_ReferenceCompetitionRank ==
  /\ MonthlyDone =>
       \A i \in 1..Len(monthlyRanked) :
         RankOf(monthlyRanked[i])
           = <<MonthlyReferenceRank(monthlyRanked[i])>>
  /\ YearlyDone =>
       \A i \in 1..Len(yearlyRanked) :
         RankOf(yearlyRanked[i])
           = <<YearlyReferenceRank(yearlyRanked[i])>>

\* the input with every property but username and points removed
PointsOnly(es) ==
  [i \in 1..Len(es) |->
     [x \in (DOMAIN es[i]) \cap {"username", "points"} |-> es[i][x]]]

\* C5: the output of each rank function is sorted descending by its mode's
\* comparator, and no field other than points influences the yearly order or
\* rank
C5_SortedDescending ==
  /\ MonthlyDone =>
       \A i, j \in 1..Len(monthlyRanked) :
         i < j => ~MonthlyBetter(monthlyRanked[j], monthlyRanked[i])
  /\ YearlyDone =>
       /\ \A i, j \in 1..Len(yearlyRanked) :
            i < j => OrZero(yearlyRanked[i], "points")
                       >= OrZero(yearlyRanked[j], "points")
       /\ NameSeq(yearlyRanked) = NameSeq(processYearlyRanks(PointsOnly(entries)))
       /\ RankSeq(yearlyRanked) = RankSeq(processYearlyRanks(PointsOnly(entries)))

\* keyOf[u] is the sort key of the record named u
StableOrder(out, keyOf) ==
  /\ \A i, j \in 1..Len(out) :
       (i < j /\ keyOf[out[i].username] = keyOf[out[j].username])
         => InputIndex(out[i].username) < InputIndex(out[j].username)
  /\ (\A i, j \in 1..Len(entries) :
        keyOf[entries[i].username] = keyOf[entries[j].username])
       => NameSeq(out) = NameSeq(entries)

InputNames == {entries[i].username : i \in 1..Len(entries)}

\* C6: the sort in both rank functions is stable: entries with equal sort
\* keys keep their relative input order, an input whose keys are all equal
\* comes back in input order
C6_StableSort ==
  /\ MonthlyDone =>
       StableOrder(monthlyRanked,
                   [u \in InputNames |-> MonthlyKey(entries[InputIndex(u)])])
  /\ YearlyDone =>
       StableOrder(yearlyRanked,
                   [u \in InputNames |-> YearlyKey(entries[InputIndex(u)])])

\* the sort moved an entry over two equal-key entries, which kept their order
C6_Witness ==
  /\ MonthlyDone /\ YearlyDone
  /\ Len(entries) = 3
  /\ NameSeq(monthlyRanked) = <<"c", "a", "b">>
  /\ MonthlyKey(entries[1]) = MonthlyKey(entries[2])
  /\ NameSeq(yearlyRanked) = <<"b", "a", "c">>
  /\ YearlyKey(entries[1]) = YearlyKey(entries[3])

EdgeCases(out) ==
  /\ Len(entries) = 0 => out = <<>>
  /\ Len(entries) = 1 => out = <<Spread(entries[1], [rank |-> 1])>>
  /\ Len(entries) >= 1 => Len(out) >= 1 /\ RankOf(out[1]) = <<1>>

\* C7: an empty input returns an empty output, a one-element input returns
\* that element with rank 1, the first output element of a non-empty input
\* has rank 1
C7_EdgeCases ==
  /\ MonthlyDone => EdgeCases(monthlyRanked)
  /\ YearlyDone => EdgeCases(yearlyRanked)

\* a one-element input that carried another rank comes back with rank 1
C7_Witness ==
  /\ MonthlyDone /\ YearlyDone
  /\ Len(entries) = 1
  /\ RankOf(entries[1]) = <<2>>
  /\ RankSeq(monthlyRanked) = <<<<1>>>>
  /\ RankSeq(yearlyRanked) = <<<<1>>>>

\* the input with every missing metric replaced by 0
ZeroFilled(es) ==
  SubSeq([i \in 1..Len(es) |->
            Spread([completionPercentage |-> 0, completedAchievements |-> 0,
                    points |-> 0], es[i])], 1, Len(es))

MissingMetric(e) ==
  \/ ~Has(e, "completionPercentage")
  \/ ~Has(e, "completedAchievements")
  \/ ~Has(e, "points")

\* C8: a missing metric is read as 0 in the sort and in the tie test:
\* replacing every missing completionPercentage, completedAchievements or
\* points of the input by 0 changes neither the output order nor any output
\* rank
C8_MissingMetricIsZero ==
  /\ MonthlyDone =>
       LET filled == processMonthlyRanks(ZeroFilled(entries))
       IN  /\ NameSeq(filled) = NameSeq(monthlyRanked)
           /\ RankSeq(filled) = RankSeq(monthlyRanked)
  /\ YearlyDone =>
       LET filled == processYearlyRanks(ZeroFilled(entries))
       IN  /\ NameSeq(filled) = NameSeq(yearlyRanked)
           /\ RankSeq(filled) = RankSeq(yearlyRanked)

\* an entry without percentage and achievements after one with both
\* explicitly 0 and before one with points explicitly 0, a better entry last
\* in the input: it shares a rank with the explicit zero
C8_Witness ==
  /\ MonthlyDone /\ YearlyDone
  /\ Len(entries) = 3
  /\ Has(entries[1], "completionPercentage")
  /\ Has(entries[1], "completedAchievements")
  /\ MonthlyKey(entries[1]) = <<0, 0>>
  /\ ~Has(entries[2], "completionPercentage")
  /\ ~Has(entries[2], "completedAchievements")
  /\ MonthlyKey(entries[3]) = <<100, 5>>
  /\ NameSeq(monthlyRanked) = <<"c", "a", "b">>
  /\ RankSeq(monthlyRanked) = <<<<1>>, <<2>>, <<2>>>>
  /\ NameSeq(yearlyRanked) = <<"a", "b", "c">>

SameRecords(out) ==
  /\ Len(out) = Len(entries)
  /\ {out[j].username : j \in 1..Len(out)}
       = {entries[i].username : i \in 1..Len(entries)}
  /\ \A j \in 1..Len(out) :
       Without(out[j], "rank")
         = Without(entries[InputIndex(out[j].username)], "rank")

\* C9: the output of each rank function has the length of the input, is a
\* permutation of it, and every field of every record other than rank is
\* unchanged
C9_SameRecords ==
  /\ MonthlyDone => SameRecords(monthlyRanked)
  /\ YearlyDone => SameRecords(yearlyRanked)

\* three records with missing metrics, reordered by both sorts
C9_Witness ==
  /\ MonthlyDone /\ YearlyDone
  /\ Len(entries) = 3
  /\ \E i \in 1..3 : MissingMetric(entries[i]) /\ Has(entries[i], "rank")
  /\ NameSeq(monthlyRanked) # NameSeq(entries)
  /\ NameSeq(yearlyRanked) # NameSeq(entries)

RanksInRange(out) ==
  \A i \in 1..Len(out) :
    Has(out[i], "rank") /\ out[i].rank \in 1..Len(entries)

\* C10: every output record of both rank functions carries a defined integer
\* rank r with 1 <= r <= n, n the number of input records
C10_RankDefinedInRange ==
  /\ MonthlyDone => RanksInRange(monthlyRanked)
  /\ YearlyDone => RanksInRange(yearlyRanked)

\* C11: the rank functions are pure: a call leaves the input array with the
\* same elements in the same order and no input record modified, and it
\* touches nothing beside its own result (the result of the other function,
\* once returned, stays as it is)
C11_InputUnchanged ==
  [][/\ entries' = entries
     /\ MonthlyDone => monthlyRanked' = monthlyRanked
     /\ YearlyDone => yearlyRanked' = yearlyRanked]_vars

\* both functions were called on a list that neither sort leaves in place,
\* whose records carry a rank: the list is as it was given
C11_Witness ==
  /\ MonthlyDone /\ YearlyDone
  /\ Len(entries) = 3
  /\ NameSeq(entries) = <<"a", "b", "c">>
  /\ NameSeq(monthlyRanked) = <<"b", "a", "c">>
  /\ NameSeq(yearlyRanked) = <<"c", "a", "b">>
  /\ RankOf(entries[3]) = <<2>>
  /\ RankOf(yearlyRanked[1]) = <<1>>

\* the input with every rank it carries replaced by another value
ReRanked(es) ==
  [i \in 1..Len(es) |->
     IF Has(es[i], "rank")
       THEN Spread(es[i], [rank |-> es[i].rank + 1])
       ELSE es[i]]

\* C12: ranks are recomputed from the metrics alone: two inputs that differ
\* only in the value of a rank field produce the same output ranks, and a
\* rank function applied to its own output returns the same ranks
C12_RanksFromMetricsAlone ==
  /\ MonthlyDone =>
       /\ RankSeq(processMonthlyRanks(ReRanked(entries))) = RankSeq(monthlyRanked)
       /\ RankSeq(processMonthlyRanks(monthlyRanked)) = RankSeq(monthlyRanked)
  /\ YearlyDone =>
       /\ RankSeq(processYearlyRanks(ReRanked(entries))) = RankSeq(yearlyRanked)
       /\ RankSeq(processYearlyRanks(yearlyRanked)) = RankSeq(yearlyRanked)

MedalByRank(out) ==
  \A i \in 1..Len(out) :
    /\ (Medal(out[i]) = "medal-gold") = (RankOf(out[i]) = <<1>>)
    /\ (Medal(out[i]) = "medal-silver") = (RankOf(out[i]) = <<2>>)
    /\ (Medal(out[i]) = "medal-bronze") = (RankOf(out[i]) = <<3>>)

\* C13: the medal is decided by the rank value: gold exactly for rank 1,
\* silver for 2, bronze for 3, so in both tabs every entry tied with the top
\* scorer is shown gold
C13_MedalByRankValue ==
  /\ MonthlyDone =>
       /\ MedalByRank(monthlyRanked)
       /\ \A i \in 1..Len(monthlyRanked) :
            MonthlyKey(monthlyRanked[i]) = MonthlyKey(monthlyRanked[1])
              => Medal(monthlyRanked[i]) = "medal-gold"
  /\ YearlyDone =>
       /\ MedalByRank(yearlyRanked)
       /\ \A i \in 1..Len(yearlyRanked) :
            YearlyKey(yearlyRanked[i]) = YearlyKey(yearlyRanked[1])
              => Medal(yearlyRanked[i]) = "medal-gold"

\* the input with every non-numeric metric replaced by 0
MalformedAsZero(es) ==
  [i \in 1..Len(es) |->
     [f \in DOMAIN es[i] |->
        IF f \in {"completionPercentage", "completedAchievements", "points"}
           /\ es[i][f] = NonNumeric
          THEN 0
          ELSE es[i][f]]]

\* C14: a non-numeric metric is coerced to zero: the rank functions order
\* and rank the entries exactly as if the value were 0
C14_MalformedCoercedToZero ==
  /\ MonthlyDone =>
       /\ NameSeq(processMonthlyRanks(MalformedAsZero(entries)))
            = NameSeq(monthlyRanked)
       /\ RankSeq(processMonthlyRanks(MalformedAsZero(entries)))
            = RankSeq(monthlyRanked)
  /\ YearlyDone =>
       /\ NameSeq(processYearlyRanks(MalformedAsZero(entries)))
            = NameSeq(yearlyRanked)
       /\ RankSeq(processYearlyRanks(MalformedAsZero(entries)))
            = RankSeq(yearlyRanked)

(***************************************************************************)
(* Vocabulary of the handler properties: the steps of request r            *)
(***************************************************************************)
\* the handler of request r is entered in this step
Arrives(r) == requests[r].phase = "idle" /\ requests'[r].phase # "idle"

\* the handler of request r returns from its retrieval in this step
Finishes(r) ==
  requests[r].phase \in {"fetching", "fetched"} /\ requests'[r].phase = "done"

\* a request that retrieved and answered 200
Retrieved(r) ==
  requests[r].phase = "done" /\ requests[r].status = 200 /\ ~requests[r].hit

\* C15: in the leaderboard handlers a GET request arriving while cachedData
\* is set and now - lastUpdateTime < CACHE_DURATION answers 200 with the
\* cached value, retrieves nothing and leaves cachedData and lastUpdateTime
\* unchanged; a GET request arriving when the cache is empty or
\* now - lastUpdateTime >= CACHE_DURATION starts a fresh retrieval
C15_TimeToLiveCache ==
  [][\A r \in 1..MaxRequests :
       (HasCache(route) /\ Arrives(r) /\ requests'[r].method = "GET") =>
         IF /\ cachedData # <<>>
            /\ lastUpdateTime # <<>>
            /\ clock - lastUpdateTime[1] < CACHE_DURATION
           THEN /\ requests'[r].phase = "done"
                /\ requests'[r].status = 200
                /\ requests'[r].body = cachedData
                /\ requests'[r].readAt = <<>>
                /\ cachedData' = cachedData
                /\ lastUpdateTime' = lastUpdateTime
           ELSE /\ requests'[r].phase = "fetching"
                /\ requests'[r].status = 0
                /\ requests'[r].body = <<>>]_vars

\* the first request filled the cache, the second was served from it half a
\* window later, the third arrived a full window later and retrieves
C15_Witness ==
  /\ HasCache(route)
  /\ Retrieved(1)
  /\ cachedData = requests[1].body
  /\ requests[2].hit
  /\ requests[2].status = 200
  /\ requests[2].body = cachedData
  /\ requests[2].now[1] - lastUpdateTime[1] = TickMillis
  /\ requests[3].phase = "fetching"
  /\ requests[3].now[1] - lastUpdateTime[1] = CACHE_DURATION

C17_ServedWithinWindow ==
  \A h \in DOMAIN requests :
    requests[h].hit =>
      requests[h].now[1] - requests[h].body[1].leaderboard < CACHE_DURATION

\* a request is served data that was read half a window before it arrived,
\* by a request that wrote the cache some time after its read
C17_Witness ==
  \E h \in DOMAIN requests :
    /\ requests[h].hit
    /\ requests[h].now[1] - requests[h].body[1].leaderboard = TickMillis
    /\ requests[h].body[1].lastUpdated > requests[h].body[1].leaderboard

\* C18: lastUpdateTime never decreases: a request that started earlier
\* never replaces the cache entry written by a request that started later
C18_LastUpdateTimeNeverDecreases ==
  [][lastUpdateTime # <<>> =>
       /\ lastUpdateTime' # <<>>
       /\ lastUpdateTime'[1] >= lastUpdateTime[1]]_vars

\* C18 as the code has it: lastUpdateTime changes only when a request that
\* retrieved returns, and then becomes the clock reading taken when that
\* request started; it decreases exactly when that request started before
\* the request whose entry it replaces
C18_LastUpdateTimeIsWritersStart ==
  [][/\ lastUpdateTime' # lastUpdateTime =>
          \E r \in 1..MaxRequests : Finishes(r) /\ requests'[r].status = 200
     /\ \A r \in 1..MaxRequests :
          (HasCache(route) /\ Finishes(r) /\ requests'[r].status = 200) =>
            /\ lastUpdateTime' = requests[r].now
            /\ lastUpdateTime # <<>> =>
                 (lastUpdateTime'[1] < lastUpdateTime[1])
                   = (requests[r].now[1]
                        < requests[cachedData[1].builtBy].now[1])]_vars

\* the request that started first wrote after the request that started
\* later: lastUpdateTime is back at the earlier start
C18_Witness ==
  /\ HasCache(route)
  /\ Retrieved(1) /\ Retrieved(2)
  /\ requests[1].now[1] < requests[2].now[1]
  /\ requests[1].body[1].lastUpdated >= requests[2].body[1].lastUpdated
  /\ cachedData = requests[1].body
  /\ lastUpdateTime = requests[1].now
  /\ lastUpdateTime[1] < requests[2].now[1]

\* C19: a leaderboard handler whose retrieval fails answers 500 with the
\* error body and leaves cachedData and lastUpdateTime as they were; the
\* cached value is never served in place of the error, and a GET request
\* that arrives after a failure, the cache being empty or expired, starts a
\* retrieval
C19_FailureLeavesCache ==
  [][\A r \in 1..MaxRequests :
       /\ (HasCache(route) /\ Finishes(r)) =>
            \/ /\ requests[r].phase = "fetched"
               /\ requests'[r].status = 200
               /\ requests'[r].body
                    = <<Response(r, requests[r].readAt[1], clock)>>
            \/ /\ requests'[r].status = 500
               /\ requests'[r].body = <<FailedToFetch>>
               /\ ~requests'[r].hit
               /\ cachedData' = cachedData
               /\ lastUpdateTime' = lastUpdateTime
       /\ ( /\ HasCache(route)
            /\ Arrives(r)
            /\ requests'[r].method = "GET"
            /\ \E q \in 1..MaxRequests : requests[q].status = 500
            /\ ~CacheFresh(cachedData, lastUpdateTime, clock) ) =>
            requests'[r].phase = "fetching"]_vars

\* the cache holds the expired response of the first request; the second
\* request failed and was answered 500; the third retrieves
C19_Witness ==
  /\ HasCache(route)
  /\ Retrieved(1)
  /\ cachedData = requests[1].body
  /\ lastUpdateTime = requests[1].now
  /\ requests[2].status = 500
  /\ requests[2].body = <<FailedToFetch>>
  /\ requests[2].now[1] - lastUpdateTime[1] >= CACHE_DURATION
  /\ requests[3].phase = "fetching"

\* C20: in the monthly-leaderboard, yearly-leaderboard and nominations
\* handlers a request whose method is not GET is answered 405 and nothing
\* else happens: no retrieval, the clock and the cache are not read for the
\* response, the cache is not modified, even when a valid cached value exists
C20_MethodNotAllowed ==
  [][\A r \in 1..MaxRequests :
       (Arrives(r) /\ requests'[r].method # "GET") =>
         /\ requests'[r].phase = "done"
         /\ requests'[r].status = 405
         /\ requests'[r].body = <<MethodNotAllowed(route)>>
         /\ requests'[r].now = <<>>
         /\ requests'[r].readAt = <<>>
         /\ ~requests'[r].hit
         /\ cachedData' = cachedData
         /\ lastUpdateTime' = lastUpdateTime]_vars

\* a POST request is answered 405 while the cache holds a value that a GET
\* request arriving at the same clock reading is served
C20_Witness ==
  /\ HasCache(route)
  /\ Retrieved(1)
  /\ CacheFresh(cachedData, lastUpdateTime, clock)
  /\ requests[2].method = "POST"
  /\ requests[2].status = 405
  /\ requests[2].body = <<MethodNotAllowed(route)>>
  /\ requests[3].hit
  /\ requests[3].now = <<clock>>

(***************************************************************************)
(* Vocabulary of the fetchWithRetry properties                             *)
(***************************************************************************)
IsFetch(e) == e[1] = "fetch"
IsWait(e) == e[1] = "wait"

\* the fetch attempts made, the waits started
Attempts == SelectSeq(events, IsFetch)
Waits == SelectSeq(events, IsWait)

Terminated == fetchPc \in {"returned", "thrown"}

\* C21: fetchWithRetry always terminates; it makes at most retries fetch
\* attempts, returns the first response whose ok flag is true and attempts
\* nothing after it, and otherwise ends by throwing: the exception of the
\* last attempt, or 'Failed after N retries' when the last attempt returned
\* a response that is not ok (or when retries is 0 and there was no
\* attempt); it never returns a response that is not ok
C21_TerminatesWithinRetries ==
  /\ <>Terminated
  /\ [](/\ Len(Attempts) <= retries
        /\ \A k \in 1..(Len(events) - 1) :
             IsFetch(events[k]) => events[k][2] # "ok"
        /\ fetchPc = "returned" =>
             /\ events[Len(events)] = <<"fetch", "ok">>
             /\ outcome = <<"response", "ok">>
        /\ fetchPc = "thrown" =>
             /\ Len(Attempts) = retries
             /\ IF retries = 0
                  THEN outcome = <<FailedAfter(0)>>
                  ELSE IF Attempts[retries][2] = "throws"
                    THEN outcome = <<FetchError(retries - 1)>>
                    ELSE /\ Attempts[retries][2] = "not ok"
                         /\ outcome = <<FailedAfter(retries)>>
        /\ outcome # <<>> => Terminated)

\* called with retries = 3: the first attempt threw, the second returned a
\* response that was not ok, the third returned an ok response
C21_Witness ==
  /\ retries = 3
  /\ fetchPc = "returned"
  /\ Len(Attempts) = 3
  /\ Attempts[1][2] = "throws"
  /\ Attempts[2][2] = "not ok"
  /\ outcome = <<"response", "ok">>

\* C22: fetchWithRetry waits only before retrying: the k-th wait lasts
\* 2^(k-1) seconds, every wait is followed by another fetch attempt, and no
\* wait takes place after the final attempt, whether it threw or returned a
\* response that is not ok
C22_WaitsOnlyBeforeRetry ==
  /\ \A k \in 1..Len(Waits) : Waits[k][2] = Pow(2, k - 1) * 1000
  /\ fetchPc = "waiting" => iter + 1 < retries
  /\ (Terminated /\ events # <<>>) => IsFetch(events[Len(events)])

(***************************************************************************)
(* Vocabulary of the response properties                                   *)
(***************************************************************************)
Answered == respPc = "done"

\* the usernames of the entries of the leaderboard, in order
LeaderboardNames(body) ==
  [k \in 1..Len(body.leaderboard) |-> body.leaderboard[k].username]

\* a set holding the elements of a sequence
Range(sq) == {sq[k] : k \in 1..Len(sq)}

\* C23: in the monthly handler a failure while fetching or parsing one
\* user's progress affects only that user: the user is in neither list of
\* the response, every other user's entry is computed and is in the
\* leaderboard or, by name, among the additional participants, the request
\* is answered 200 and the cache holds the partial result
C23_UserFailureIsLocal ==
  (Answered /\ route = "monthly-leaderboard") =>
    /\ answer[1].status = 200
    /\ cachedData = <<answer[1].body>>
    /\ lastUpdateTime = <<clock>>
    /\ \A k \in 1..Len(users) :
         IF users[k].threw
           THEN /\ users[k].username \notin Range(LeaderboardNames(answer[1].body))
                /\ users[k].username
                     \notin Range(answer[1].body.additionalParticipants)
           ELSE \/ MonthlyUserResult(users[k])[1]
                     \in Range(answer[1].body.leaderboard)
                \/ users[k].username
                     \in Range(answer[1].body.additionalParticipants)

\* twelve users, the processing of one of them threw: ten entries in the
\* leaderboard and one additional participant
C23_Witness ==
  /\ Answered
  /\ route = "monthly-leaderboard"
  /\ Len(users) = 12
  /\ Cardinality({k \in 1..12 : users[k].threw}) = 1
  /\ answer[1].status = 200
  /\ Len(answer[1].body.leaderboard) = 10
  /\ Len(answer[1].body.additionalParticipants) = 1
  /\ cachedData = <<answer[1].body>>

\* the users that come through the filter of the route
Qualifying ==
  {k \in 1..Len(users) :
     IF route = "monthly-leaderboard"
       THEN ~users[k].threw
       ELSE users[k].points > 0 \/ Len(users[k].bonusPoints) > 0}

\* C24: every leaderboard response splits the sorted list of qualifying
\* users without loss or overlap: leaderboard holds at most 10 entries and
\* is the first 10 (or fewer) of the sorted list, additionalParticipants
\* holds the usernames of all the others in sorted order, and each
\* qualifying user is in exactly one of the two
C24_SplitWithoutLossOrOverlap ==
  (Answered /\ answer[1].status = 200) =>
    LET body == answer[1].body
        sorted == SortedUsers(route, results)
        top == LeaderboardNames(body)
        rest == body.additionalParticipants
    IN  /\ Len(top) <= 10
        /\ Len(top) = (IF Len(sorted) < 10 THEN Len(sorted) ELSE 10)
        /\ \A k \in 1..Len(top) : body.leaderboard[k] = sorted[k]
        /\ Len(rest) = Len(sorted) - Len(top)
        /\ \A k \in 1..Len(rest) : rest[k] = sorted[10 + k].username
        /\ Len(sorted) = Cardinality(Qualifying)
        /\ \A q \in Qualifying :
             Cardinality({k \in 1..Len(top) : top[k] = users[q].username})
               + Cardinality({k \in 1..Len(rest) : rest[k] = users[q].username})
               = 1
        /\ \A k \in 1..(Len(sorted) - 1) :
             HandlerCompare(route, sorted[k], sorted[k + 1]) <= 0

\* eleven qualifying users of twelve, the tenth and the eleventh of the
\* sorted list with equal keys: ten in the leaderboard, one additional
\* participant
C24_Witness ==
  /\ Answered
  /\ answer[1].status = 200
  /\ Len(users) = 12
  /\ Cardinality(Qualifying) = 11
  /\ Len(answer[1].body.leaderboard) = 10
  /\ Len(answer[1].body.additionalParticipants) = 1
  /\ HandlerCompare(route, SortedUsers(route, results)[10],
                    SortedUsers(route, results)[11]) = 0

(***************************************************************************)
(* Vocabulary of the nominations properties                                *)
(***************************************************************************)
\* the raw nominations of all periods, period after period
Raw == AllNominations(periods)

\* the place of the first raw nomination of game g
FirstOf(g) ==
  CHOOSE k \in 1..Len(Raw) :
    /\ Raw[k].game = g
    /\ \A l \in 1..(k - 1) : Raw[l].game # g

RECURSIVE SumOfCounts(_)
SumOfCounts(noms) ==
  IF noms = <<>>
    THEN 0
    ELSE Head(noms).nominationCount + SumOfCounts(Tail(noms))

\* C25: in the web app format the handler removes duplicate nominations by
\* game: no two returned nominations have the same game, every game of any
\* period has one, the one kept for a game is its first nomination in
\* period-then-list order, and the kept nominations are in their original
\* relative order
C25_FirstNominationPerGame ==
  (format = "web" /\ nomAnswer # <<>>) =>
    /\ nomAnswer[1].status = 200
    /\ LET out == nomAnswer[1].body.nominations
       IN  /\ \A k, l \in 1..Len(out) : k # l => out[k].game # out[l].game
           /\ {out[k].game : k \in 1..Len(out)}
                = {Raw[k].game : k \in 1..Len(Raw)}
           /\ \A k \in 1..Len(out) : out[k] = Raw[FirstOf(out[k].game)]
           /\ \A k, l \in 1..Len(out) :
                k < l => FirstOf(out[k].game) < FirstOf(out[l].game)

\* a game nominated by x in the first period and by y in the second, with
\* another game in between: the nomination of x is kept, ahead of the other
\* game
C25_Witness ==
  /\ format = "web"
  /\ nomAnswer # <<>>
  /\ Len(periods[1]) = 2
  /\ Len(periods[2]) = 1
  /\ periods[1][1] = Nomination("1942", "x")
  /\ periods[1][2].game = "constructor"
  /\ periods[2][1] = Nomination("1942", "y")
  /\ Len(nomAnswer[1].body.nominations) = 2
  /\ nomAnswer[1].body.nominations[1] = Nomination("1942", "x")

\* C26: in the carrd format, for every returned game nominationCount is
\* the length of nominatedBy, nominatedBy holds no username twice and holds
\* every user who nominated the game in any period, uniqueGames is the
\* number of distinct game titles, totalNominations is the number of raw
\* nominations of all periods, and the sum of nominationCount does not
\* exceed totalNominations
C26_CarrdCounts ==
  (format = "carrd" /\ nomAnswer # <<>> /\ nomAnswer[1].status = 200) =>
    LET body == nomAnswer[1].body
        noms == body.nominations
    IN  /\ \A k \in 1..Len(noms) :
             /\ noms[k].nominationCount = Len(noms[k].nominatedBy)
             /\ \A a, b \in 1..Len(noms[k].nominatedBy) :
                  a # b => noms[k].nominatedBy[a] # noms[k].nominatedBy[b]
             /\ {noms[k].nominatedBy[a] : a \in 1..Len(noms[k].nominatedBy)}
                  = {Raw[l].discordUsername :
                       l \in {l \in 1..Len(Raw) : Raw[l].game = noms[k].title}}
        /\ \A k, l \in 1..Len(noms) : k # l => noms[k].title # noms[l].title
        /\ {noms[k].title : k \in 1..Len(noms)}
             = {Raw[l].game : l \in 1..Len(Raw)}
        /\ body.uniqueGames = Cardinality({Raw[l].game : l \in 1..Len(Raw)})
        /\ body.totalNominations = Len(Raw)
        /\ SumOfCounts(noms) <= body.totalNominations

\* a game nominated twice by x and once by y, over two periods: three raw
\* nominations, one game, counted twice
C26_Witness ==
  /\ format = "carrd"
  /\ nomAnswer # <<>>
  /\ nomAnswer[1].status = 200
  /\ Len(periods[1]) = 1
  /\ Len(Raw) = 3
  /\ \A k \in 1..3 : Raw[k].game = "Chrono Trigger"
  /\ Raw[1].discordUsername = "x"
  /\ Raw[2].discordUsername = "y"
  /\ Raw[3].discordUsername = "x"
  /\ nomAnswer[1].body.totalNominations = 3
  /\ nomAnswer[1].body.uniqueGames = 1
  /\ nomAnswer[1].body.nominations[1].nominationCount = 2
  /\ nomAnswer[1].body.nominations[1].nominatedBy = <<"x", "y">>

====
